---- MODULE Spec2Model ----
(***************************************************************************)
(* Model of the vscode-gitignore extension: the expiring cache, the proxy  *)
(* resolution and memoized agent of the HTTP client, the two GitHub        *)
(* template providers (repository-contents and templates-API) with their   *)
(* listing, download and downloadToStream operations, and the              *)
(* 'Add gitignore' command chain of extension.ts.                          *)
(*                                                                         *)
(* Strings are modelled as sequences of one-character strings (file and    *)
(* response contents) or of tokens (file names), so that appending,        *)
(* suffix tests and replacement are computed and not assumed.              *)
(***************************************************************************)
EXTENDS Integers, Sequences, FiniteSets, TLC

VARIABLES
    now,        \* the clock (Date.now()), in ticks
    interval,   \* Cache._cacheExpirationInterval, in seconds
    store,      \* Cache._store: key -> entry
    lastGet,    \* the last Cache.get call: its key, its result, the entry's age
    file,       \* the destination .gitignore on the local filesystem
    sink,       \* the caller-supplied writable stream of downloadToStream
    dl,         \* the download / downloadToStream call in progress
    dlCount,    \* number of download calls made so far
    remote,     \* the remote repository: sub-path -> directory listing
    gt,         \* the getTemplates() calls: call number -> call
    nCalls,     \* number of getTemplates() calls started so far
    callBudget, \* number of getTemplates() calls of this behaviour
    api,        \* the getTemplates() calls of the API provider
    folders,    \* vscode.workspace.workspaceFolders: number of open folders
    cmd,        \* the 'gitignore.addgitignore' command invocation
    config,     \* the proxy sources: the http.proxy setting and the environment
    agent,      \* the module-level 'agent' of http-client.ts
    lastAgent   \* the last getAgent() call: what it found and returned

vars == <<now, interval, store, lastGet, file, sink, dl, dlCount,
          remote, gt, nCalls, callBudget, api, folders, cmd,
          config, agent, lastAgent>>

cacheVars == <<now, interval, store, lastGet>>
dlVars    == <<file, sink, dl, dlCount>>
listVars  == <<remote, gt, nCalls, callBudget, api>>
cmdVars   == <<folders, cmd>>
netVars   == <<config, agent, lastAgent>>

----------------------------------------------------------------------------
(* Bounds of the model *)

\* clock resolution: ticks per second
TicksPerSecond == 10
\* the clock stops advancing at MaxTime ticks
MaxTime == 12
\* number of download / downloadToStream calls in one behaviour
MaxDownloads == 2
\* number of getTemplates() calls in one behaviour
MaxCalls == 3
\* number of entries of one remote directory listing
MaxListing == 2
\* the clock step of the listing specifications, in ticks
ListingStep == 5
\* number of invocations of the 'Add gitignore' command in one behaviour
MaxInvocations == 2

----------------------------------------------------------------------------
(* Values *)

LF == "\n"
Undefined == "undefined"
Null == "null"

----------------------------------------------------------------------------
(* Expiring cache (cache.ts) *)

CacheKeys == {"foo", "bar", "gitignore/", "gitignore/Global", "gitignore"}
\* the keys of the cache's own tests
TestKeys == {"foo", "bar"}
CacheValues == {"bar", "baz"}
Intervals == {0, 1}

NoEntry == [present |-> FALSE, value |-> Undefined, storedAt |-> 0]

\* new CacheItem(key, value): stamps the current time
CacheItem(v) == [present |-> TRUE, value |-> v, storedAt |-> now]

\* the mutated form of IsFresh: an entry is still readable at the boundary
IsFreshInclusive(e) == e.present /\ now - e.storedAt <= interval * TicksPerSecond

\* the mutated form of IsFresh: the comparison is inverted
IsFreshInverted(e) == e.present /\ now - e.storedAt >= interval * TicksPerSecond

\* an entry is readable only while now - storedAt < expirationInterval
IsFresh(e) == e.present /\ now - e.storedAt < interval * TicksPerSecond

\* Cache.get(key) -> value | undefined
CacheGetValue(k) == IF IsFresh(store[k]) THEN store[k].value ELSE Undefined

NoGet == [called |-> FALSE, key |-> "", result |-> Undefined, age |-> -1]

CacheInit ==
    /\ now = 0
    /\ interval \in Intervals
    /\ store = [k \in CacheKeys |-> NoEntry]
    /\ lastGet = NoGet

\* Cache.add(item): inserts or overwrites the entry of item.key
CacheAdd(k, v) ==
    /\ store' = [store EXCEPT ![k] = CacheItem(v)]
    /\ UNCHANGED <<now, interval, lastGet>>

\* Cache.get(key): a read; expiry is evaluated on the read
CacheGet(k) ==
    /\ lastGet' = [called |-> TRUE, key |-> k, result |-> CacheGetValue(k),
                   age |-> IF store[k].present THEN now - store[k].storedAt ELSE -1]
    /\ UNCHANGED <<now, interval, store>>

\* time passes
Tick ==
    /\ now < MaxTime
    /\ now' = now + 1
    /\ UNCHANGED <<interval, store, lastGet>>

----------------------------------------------------------------------------
(* HTTP client policy (http-client.ts) *)

\* the values of a proxy source: unset, the empty string, or a URL
SettingValues == {Undefined, "", "http://setting"}
HttpsProxyValues == {Undefined, "", "http://https-env"}
HttpProxyValues == {Undefined, "", "http://http-env"}

\* the http.proxy setting of the editor and the two environment variables
ProxyConfigs == [setting : SettingValues, HTTPS_PROXY : HttpsProxyValues,
                 HTTP_PROXY : HttpProxyValues]

NoProxy == [setting |-> Undefined, HTTPS_PROXY |-> Undefined,
            HTTP_PROXY |-> Undefined]

\* truthiness of a string | undefined: the empty string is falsy
Truthy(v) == v # Undefined /\ v # ""

\* a || b: a if it is truthy, else b, whatever b is
Or(a, b) == IF Truthy(a) THEN a ELSE b

\* the mutated form of GetProxyConfig: the environment is read first
GetProxyConfigEnvFirst(c) == Or(Or(c.HTTPS_PROXY, c.HTTP_PROXY), c.setting)

\* getProxyConfig():
\*   httpConfig.get('proxy', undefined) || env.HTTPS_PROXY || env.HTTP_PROXY
GetProxyConfig(c) == Or(Or(c.setting, c.HTTPS_PROXY), c.HTTP_PROXY)

\* the module-level agent: undefined (instance 0), or the instance built
\* by the n-th 'new HttpsProxyAgent(proxy)' of the process
NoAgent == [instance |-> 0, proxy |-> Undefined]

\* getProxyConfig() was not called
NotRead == "not read"

\* the mutated form of GetAgent: the memoized agent is not looked at
GetAgentNoMemo(a, c) ==
    LET proxy == GetProxyConfig(c)
    IN [agent |-> IF Truthy(proxy)
                  THEN [instance |-> a.instance + 1, proxy |-> proxy]
                  ELSE a,
        proxy |-> proxy]

\* getAgent() with module-level agent a and proxy sources c: the agent it
\* leaves and returns, and what its getProxyConfig() call returned
GetAgent(a, c) ==
    IF a.instance # 0 THEN [agent |-> a, proxy |-> NotRead]
    ELSE LET proxy == GetProxyConfig(c)
         IN [agent |-> IF Truthy(proxy)
                       THEN [instance |-> a.instance + 1, proxy |-> proxy]
                       ELSE a,
             proxy |-> proxy]

NoAgentCall == [called |-> FALSE, before |-> NoAgent, config |-> NoProxy,
                proxy |-> NotRead, returned |-> NoAgent]

AgentInit ==
    /\ agent = NoAgent
    /\ lastAgent = NoAgentCall

\* the module state after n successive getAgent() calls
RECURSIVE AfterGetAgent(_, _)
AfterGetAgent(s, n) ==
    IF n = 0 THEN s
    ELSE LET r == GetAgent(s.agent, config)
         IN AfterGetAgent([agent |-> r.agent,
                           lastAgent |-> [called |-> TRUE, before |-> s.agent,
                                          config |-> config, proxy |-> r.proxy,
                                          returned |-> r.agent]], n - 1)

\* the getAgent() calls of the requests an operation issues
GetAgentCalls(n) ==
    LET s == AfterGetAgent([agent |-> agent, lastAgent |-> lastAgent], n)
    IN /\ agent' = s.agent
       /\ lastAgent' = s.lastAgent
       /\ UNCHANGED config

\* the proxy sources that differ from c in exactly one source
OneSourceChanged(c) ==
    {d \in ProxyConfigs :
        Cardinality({f \in {"setting", "HTTPS_PROXY", "HTTP_PROXY"} : d[f] # c[f]}) = 1}

\* the user edits the http.proxy setting, or one environment variable is
\* set or deleted
ConfigChange(c) ==
    /\ c \in OneSourceChanged(config)
    /\ config' = c
    /\ UNCHANGED <<agent, lastAgent>>

----------------------------------------------------------------------------
(* Local filesystem and download operations                                *)
(* (providers/github-gitignore-repository.ts, github-gitignore-api.ts)     *)

Providers == {"Repository", "Api"}
OperationTypes == {"Append", "Overwrite"}
\* the template of an operation: a template, null, or undefined
NullTemplate == [tag |-> Null]
UndefinedTemplate == [tag |-> Undefined]
TemplateC == [name |-> <<"C">>, path |-> <<"C", ".gitignore">>]
TemplateValues == {TemplateC, NullTemplate, UndefinedTemplate}
Statuses == {200, 404}
Bodies == {<<>>, <<"B">>, <<"B", LF>>}
InitialFiles == {[exists |-> FALSE, content |-> <<>>],
                 [exists |-> TRUE, content |-> <<>>],
                 [exists |-> TRUE, content |-> <<"A", LF>>]}
NetworkErrorMessage == "ECONNRESET"
\* err.message of a failed fs.unlink
UnlinkErrorMessage == "EPERM"
NoSuchFileMessage == "ENOENT"

\* what a call remembers of the call made before it
NoPrev == [kind |-> "", type |-> "", template |-> UndefinedTemplate,
           body |-> <<>>, pc |-> "idle", preSink |-> <<>>]

NoCall == [pc |-> "idle", provider |-> "", kind |-> "", type |-> "",
           template |-> UndefinedTemplate, flags |-> "", status |-> 0, remaining |-> <<>>,
           body |-> <<>>, promise |-> "none", value |-> [kind |-> "none"],
           thrown |-> FALSE, requests |-> 0, closed |-> FALSE,
           finished |-> FALSE, unlinks |-> 0, netError |-> FALSE,
           streamError |-> "", effects |-> <<>>,
           unlinkError |-> "", logged |-> <<>>,
           pre |-> [exists |-> FALSE, content |-> <<>>],
           preSink |-> <<>>, prev |-> NoPrev]

\* the mutated form of OpenFlags: every download truncates the destination
OpenFlagsAlwaysTruncate(type) == "w"

\* const flags = operation.type === GitignoreOperationType.Overwrite ? 'w' : 'a'
OpenFlags(type) == IF type = "Overwrite" THEN "w" ELSE "a"

\* the mutated form of CreateWriteStream: the destination is never truncated
CreateWriteStreamKeeps(f, flags) ==
    [exists |-> TRUE, content |-> IF f.exists THEN f.content ELSE <<>>]

\* fs.createWriteStream(path, {flags}): 'w' creates or truncates, 'a' creates or keeps
CreateWriteStream(f, flags) ==
    IF flags = "w" THEN [exists |-> TRUE, content |-> <<>>]
    ELSE [exists |-> TRUE, content |-> IF f.exists THEN f.content ELSE <<>>]

\* the mutated form of WriteSeparator: the separator is written in every mode
WriteSeparatorAlways(f, flags) == [f EXCEPT !.content = @ \o <<LF>>]

\* the mutated form of WriteSeparator: an appending download writes two
\* separators
WriteSeparatorTwice(f, flags) ==
    IF flags = "a" THEN [f EXCEPT !.content = @ \o <<LF, LF>>] ELSE f

\* if(flags === 'a') file.write('\n')
WriteSeparator(f, flags) ==
    IF flags = "a" THEN [f EXCEPT !.content = @ \o <<LF>>] ELSE f

\* operation.template.path throws a TypeError when template is null or undefined
HasTemplate(t) == t # NullTemplate /\ t # UndefinedTemplate

\* the guard of downloadToStream:
\*   repository provider: operation.template == null  (null and undefined)
\*   API provider:        operation.template === null (null only)
GuardRejects(provider, t) ==
    IF provider = "Repository" THEN t = NullTemplate \/ t = UndefinedTemplate
    ELSE t = NullTemplate

\* 'Download failed with status code ' + response.statusCode
StatusError(status) ==
    [kind |-> "Error", text |-> "Download failed with status code ", code |-> status]

\* the TypeError of reading 'path' of a null or undefined template
TypeErrorValue ==
    [kind |-> "TypeError", text |-> "Cannot read properties of ", code |-> 0]

\* err.message of a transport error: the promise is rejected with the string
TransportError == [kind |-> "string", text |-> NetworkErrorMessage, code |-> 0]

\* the value a successful call resolves with:
\*   repository provider: resolve(operation); API provider: resolve()
ResolvedValue(provider, type, template) ==
    IF provider = "Repository"
    THEN [kind |-> "operation", type |-> type, template |-> template]
    ELSE [kind |-> Undefined]

\* a promise settles once: later resolve / reject calls are ignored
Settle(d, how, v) ==
    IF d.promise = "pending" THEN [d EXCEPT !.promise = how, !.value = v] ELSE d

DlInit ==
    /\ file \in InitialFiles
    /\ sink = <<>>
    /\ dl = NoCall
    /\ dlCount = 0

NewCall(provider, kind, type, t) ==
    [NoCall EXCEPT !.provider = provider, !.kind = kind, !.type = type,
                   !.template = t, !.pre = file, !.preSink = sink,
                   !.prev = [kind |-> dl.kind, type |-> dl.type,
                             template |-> dl.template, body |-> dl.body,
                             pc |-> dl.pc, preSink |-> dl.preSink]]

\* the calls of the executor of download, in the order of the statements:
\* createWriteStream, the separator write, then new URL(template.path),
\* which throws without a template, and https.request(...) / req.end()
DownloadEffects(flags, t) ==
    <<"createWriteStream">> \o
    (IF flags = "a" THEN <<"write">> ELSE <<>>) \o
    (IF HasTemplate(t) THEN <<"request">> ELSE <<"throw">>)

\* download(operation), up to and including req.end()
Download(provider, type, t) ==
    /\ dl.pc \in {"idle", "done", "failed", "thrown"}
    /\ dlCount < MaxDownloads
    /\ dlCount' = dlCount + 1
    /\ LET flags == OpenFlags(type)
           c == [NewCall(provider, "download", type, t) EXCEPT
                     !.flags = flags, !.promise = "pending",
                     !.effects = DownloadEffects(flags, t)]
       IN /\ file' = WriteSeparator(CreateWriteStream(file, flags), flags)
          /\ dl' = IF HasTemplate(t)
                   THEN [c EXCEPT !.pc = "fetching", !.requests = 1]
                   ELSE [Settle(c, "rejected", TypeErrorValue) EXCEPT !.pc = "failed"]
    /\ GetAgentCalls(IF HasTemplate(t) THEN 1 ELSE 0)
    /\ UNCHANGED <<sink>>

\* downloadToStream(operation, stream), up to and including req.end()
DownloadToStream(provider, type, t) ==
    /\ dl.pc \in {"idle", "done", "failed", "thrown"}
    /\ dlCount < MaxDownloads
    /\ dlCount' = dlCount + 1
    /\ LET c == [NewCall(provider, "downloadToStream", type, t) EXCEPT
                     !.effects = IF ~GuardRejects(provider, t) /\ HasTemplate(t)
                                 THEN <<"request">> ELSE <<"throw">>]
       IN dl' = IF GuardRejects(provider, t)
                THEN [c EXCEPT !.pc = "thrown", !.thrown = TRUE]
                ELSE IF HasTemplate(t)
                THEN [c EXCEPT !.pc = "fetching", !.requests = 1, !.promise = "pending"]
                ELSE [Settle([c EXCEPT !.promise = "pending"], "rejected", TypeErrorValue)
                          EXCEPT !.pc = "failed"]
    /\ GetAgentCalls(IF ~GuardRejects(provider, t) /\ HasTemplate(t) THEN 1 ELSE 0)
    /\ UNCHANGED <<file, sink>>

\* the mutated form of Response: resolve as soon as the body is piped
ResponseResolvesEarly(status, body) ==
    /\ dl.pc = "fetching"
    /\ dl' = IF status # 200
             THEN [Settle(dl, "rejected", StatusError(status)) EXCEPT
                       !.pc = "failed", !.status = status]
             ELSE [Settle(dl, "resolved",
                          ResolvedValue(dl.provider, dl.type, dl.template)) EXCEPT
                       !.pc = "writing", !.status = status,
                       !.remaining = body, !.body = body]
    /\ UNCHANGED <<file, sink, dlCount>>

\* the response callback of https.request
Response(status, body) ==
    /\ dl.pc = "fetching"
    /\ dl' = IF status # 200
             THEN [Settle(dl, "rejected", StatusError(status)) EXCEPT
                       !.pc = "failed", !.status = status]
             ELSE [dl EXCEPT !.pc = "writing", !.status = status,
                             !.remaining = body, !.body = body]
    /\ UNCHANGED <<file, sink, dlCount>>

\* response.pipe(destination): one chunk of the body reaches the destination
WriteChunk ==
    /\ dl.pc = "writing"
    /\ dl.streamError = ""
    /\ dl.remaining # <<>>
    /\ dl' = [dl EXCEPT !.remaining = Tail(@)]
    /\ IF dl.kind = "download"
       THEN /\ file' = [file EXCEPT !.content = @ \o <<Head(dl.remaining)>>]
            /\ UNCHANGED sink
       ELSE /\ sink' = sink \o <<Head(dl.remaining)>>
            /\ UNCHANGED file
    /\ UNCHANGED <<dlCount>>

\* destination.on('finish'): close the destination, then resolve
Finish ==
    /\ dl.pc = "writing"
    /\ dl.streamError = ""
    /\ dl.remaining = <<>>
    /\ dl' = [Settle([dl EXCEPT !.finished = TRUE, !.closed = TRUE], "resolved",
                     ResolvedValue(dl.provider, dl.type, dl.template))
                  EXCEPT !.pc = "done"]
    /\ UNCHANGED <<file, sink, dlCount>>

\* the causes of a stream-level error while the body is piped
StreamErrorCauses == {"aborted", "writeError"}

\* the connection is closed before the response's 'end', or a write to the
\* destination fails: the response's 'aborted' / 'error' and the
\* destination's 'error' have no handler, pipe() ends the destination only
\* on the response's 'end', and a premature close after the response has
\* arrived does not emit the request's 'error': nothing more is written,
\* 'finish' never fires, and neither resolve nor reject is called
StreamError(cause) ==
    /\ dl.pc = "writing"
    /\ dl.streamError = ""
    /\ dl' = [dl EXCEPT !.streamError = cause]
    /\ UNCHANGED <<file, sink, dlCount>>

\* the mutated form of UnlinksOnError: every failed download unlinks
UnlinksOnErrorAnyMode(d) ==
    IF d.kind = "download" THEN TRUE
    ELSE d.provider = "Api" /\ d.type = "Overwrite"

\* which calls unlink the destination in their request 'error' handler:
\*   download: if(flags === 'w'); repository downloadToStream: never;
\*   API downloadToStream: if(operation.type === Overwrite)
UnlinksOnError(d) ==
    IF d.kind = "download" THEN d.flags = "w"
    ELSE d.provider = "Api" /\ d.type = "Overwrite"

\* the mutated form of NetworkError: the request is issued again
NetworkErrorRetries(unlinkFails) ==
    /\ dl.pc = "fetching"
    /\ dl' = [dl EXCEPT !.requests = @ + 1, !.netError = TRUE]
    /\ UNCHANGED <<file, sink, dlCount>>

\* the error of the fs.unlink of the 'error' handler of call d, "" if there
\* is none: there is no file to unlink, or the unlink is refused
UnlinkError(d, unlinkFails) ==
    IF ~UnlinksOnError(d) THEN ""
    ELSE IF ~file.exists THEN NoSuchFileMessage
    ELSE IF unlinkFails THEN UnlinkErrorMessage
    ELSE ""

\* the mutated form of NetworkError: the error of a failed unlink replaces
\* the network error as the reason of the rejection
NetworkErrorEscalates(unlinkFails) ==
    /\ \/ dl.pc = "fetching"
       \/ dl.pc = "writing" /\ dl.streamError = ""
    /\ IF UnlinksOnError(dl) /\ UnlinkError(dl, unlinkFails) = ""
       THEN file' = [exists |-> FALSE, content |-> <<>>]
       ELSE UNCHANGED file
    /\ dl' = [Settle(dl, "rejected",
                     IF UnlinkError(dl, unlinkFails) # ""
                     THEN [kind |-> "string",
                           text |-> UnlinkError(dl, unlinkFails), code |-> 0]
                     ELSE TransportError) EXCEPT
                  !.pc = "failed", !.netError = TRUE,
                  !.unlinks = IF UnlinksOnError(dl) THEN 1 ELSE 0,
                  !.unlinkError = UnlinkError(dl, unlinkFails)]
    /\ UNCHANGED <<sink, dlCount>>

\* req.on('error'): the request failed before a response arrived, or the
\* socket failed while the body of a 200 response was being received; the
\* callback of fs.unlink passes the message of a failed unlink to
\* console.error
NetworkError(unlinkFails) ==
    /\ \/ dl.pc = "fetching"
       \/ dl.pc = "writing" /\ dl.streamError = ""
    /\ IF UnlinksOnError(dl) /\ UnlinkError(dl, unlinkFails) = ""
       THEN file' = [exists |-> FALSE, content |-> <<>>]
       ELSE UNCHANGED file
    /\ dl' = [Settle(dl, "rejected", TransportError) EXCEPT
                  !.pc = "failed", !.netError = TRUE,
                  !.unlinks = IF UnlinksOnError(dl) THEN 1 ELSE 0,
                  !.effects = IF UnlinksOnError(dl) THEN @ \o <<"unlink">> ELSE @,
                  !.unlinkError = UnlinkError(dl, unlinkFails),
                  !.logged = IF UnlinkError(dl, unlinkFails) # ""
                             THEN <<UnlinkError(dl, unlinkFails)>> ELSE <<>>]
    /\ UNCHANGED <<sink, dlCount>>


----------------------------------------------------------------------------
(* Template listing of the repository-contents provider                    *)
(* (GithubGitignoreRepositoryProvider.getTemplates / getFiles)             *)

Suffix == ".gitignore"
SubPaths == {"", "Global"}
CacheKey(path) == IF path = "" THEN "gitignore/" ELSE "gitignore/Global"

\* file names are token sequences: "a.gitignore" is <<"a", ".gitignore">>
FileNames == {<<"a", Suffix>>, <<"B", Suffix>>, <<"a", ".md">>,
              <<"a", Suffix, "B", Suffix>>}
\* remote entries: a file of each name, and a directory named like a template
Items == [name : FileNames, type : {"file"}] \cup
         {[name |-> <<"a", Suffix>>, type |-> "dir"]}

\* the sequences over S of length at most n without a repeated name
RECURSIVE ListingsUpTo(_)
ListingsUpTo(n) ==
    IF n = 0 THEN {<<>>}
    ELSE LET shorter == ListingsUpTo(n - 1)
         IN shorter \cup
            {Append(l, i) : l \in {x \in shorter : Len(x) = n - 1}, i \in Items}

UniqueNames(l) == \A i, j \in 1..Len(l) : i # j => l[i].name # l[j].name

Listings == {l \in ListingsUpTo(MaxListing) : UniqueNames(l)}

\* item.path: the path of the entry relative to the repository root
ItemPath(path, item) == IF path = "" THEN item.name ELSE <<"Global/">> \o item.name

\* item.name.endsWith('.gitignore')
EndsWithSuffix(name) == Len(name) > 0 /\ name[Len(name)] = Suffix

\* item.name.replace(/\.gitignore/, ''): removes the first match only
RECURSIVE ReplaceFirst(_)
ReplaceFirst(name) ==
    IF name = <<>> THEN <<>>
    ELSE IF Head(name) = Suffix THEN Tail(name)
    ELSE <<Head(name)>> \o ReplaceFirst(Tail(name))

\* the mutated form of KeepItem: the type of the entry is not looked at
KeepItemAnyType(item) == EndsWithSuffix(item.name)

\* the filter of getFiles
KeepItem(item) == item.type = "file" /\ EndsWithSuffix(item.name)

\* the map of getFiles
ToTemplate(path, item) ==
    [name |-> ReplaceFirst(item.name), path |-> ItemPath(path, item)]

\* items.filter(...).map(...)
RECURSIVE FilterMap(_, _)
FilterMap(path, items) ==
    IF items = <<>> THEN <<>>
    ELSE IF KeepItem(Head(items))
         THEN <<ToTemplate(path, Head(items))>> \o FilterMap(path, Tail(items))
         ELSE FilterMap(path, Tail(items))

\* collation order of the tokens: punctuation first, then letters
\* regardless of their case
CollationRank(tok) ==
    CASE tok = Suffix -> 1
      [] tok = ".md" -> 2
      [] tok = "Global/" -> 3
      [] tok = "a" -> 4
      [] tok = "B" -> 5
      [] OTHER -> 6

\* a.localeCompare(b): negative, zero or positive
RECURSIVE LocaleCompare(_, _)
LocaleCompare(a, b) ==
    IF a = <<>> /\ b = <<>> THEN 0
    ELSE IF a = <<>> THEN -1
    ELSE IF b = <<>> THEN 1
    ELSE IF CollationRank(Head(a)) < CollationRank(Head(b)) THEN -1
    ELSE IF CollationRank(Head(a)) > CollationRank(Head(b)) THEN 1
    ELSE LocaleCompare(Tail(a), Tail(b))

\* insertion of t into a sorted list, after the elements that compare equal
RECURSIVE InsertSorted(_, _)
InsertSorted(t, l) ==
    IF l = <<>> THEN <<t>>
    ELSE IF LocaleCompare(t.name, Head(l).name) < 0 THEN <<t>> \o l
    ELSE <<Head(l)>> \o InsertSorted(t, Tail(l))

\* Array.prototype.sort with the localeCompare comparator (a stable sort)
RECURSIVE SortByName(_)
SortByName(l) ==
    IF l = <<>> THEN <<>>
    ELSE InsertSorted(l[Len(l)], SortByName(SubSeq(l, 1, Len(l) - 1)))

\* the mutated form of MergeResults: the two listings are only concatenated
MergeResultsUnsorted(root, global) == root \o global

\* Array.prototype.concat.apply([], result).sort(...)
MergeResults(root, global) == SortByName(root \o global)

\* the bodies of the non-200 answers to a listing request
ListingErrorBodies == {"", "API rate limit exceeded"}

NoError == [kind |-> "none", text |-> "", code |-> 0]

\* a getFiles(path) call: its promise, its request, the response body of a
\* non-200 answer, and the times of the cache entry it read and wrote
NoSub == [state |-> "none", value |-> <<>>, requests |-> 0, filledAt |-> -1,
          entryAt |-> -1, failure |-> "", body |-> "", error |-> NoError]
\* a getTemplates() call; order lists its sub-calls as they resolved
NoGetTemplates == [state |-> "unused", sub |-> [p \in SubPaths |-> NoSub],
                   result |-> <<>>, at |-> 0, afterResolved |-> FALSE,
                   order |-> <<>>, reason |-> NoError]

\* a getTemplates() call of the API provider
NoApiCall == [NoSub EXCEPT !.state = "unused"]

ListInit ==
    /\ gt = [c \in 1..MaxCalls |-> NoGetTemplates]
    /\ nCalls = 0
    /\ api = [c \in 1..MaxCalls |-> NoApiCall]

\* the mutated form of StartGetFiles: a stored entry is used whatever its age
StartGetFilesAnyAge(path) ==
    LET e == store[CacheKey(path)]
        seen == IF e.present THEN e.storedAt ELSE -1
    IN IF e.present
       THEN [NoSub EXCEPT !.state = "hit", !.value = e.value, !.entryAt = seen]
       ELSE [NoSub EXCEPT !.state = "inflight", !.requests = 1, !.entryAt = seen]

\* the mutated form of StartGetFiles: the cache is not consulted
StartGetFilesNoCache(path) ==
    LET e == store[CacheKey(path)]
        seen == IF e.present THEN e.storedAt ELSE -1
    IN [NoSub EXCEPT !.state = "inflight", !.requests = 1, !.entryAt = seen]

\* the mutated form of StartGetFiles: a call that finds a request for its
\* sub-path in flight waits for that request and issues none of its own
StartGetFilesCoalesced(path) ==
    LET e == store[CacheKey(path)]
        seen == IF e.present THEN e.storedAt ELSE -1
    IN IF IsFresh(e)
       THEN [NoSub EXCEPT !.state = "hit", !.value = e.value, !.entryAt = seen]
       ELSE IF \E c \in 1..MaxCalls : gt[c].sub[path].state = "inflight"
       THEN [NoSub EXCEPT !.state = "inflight", !.requests = 0, !.entryAt = seen]
       ELSE [NoSub EXCEPT !.state = "inflight", !.requests = 1, !.entryAt = seen]

\* getFiles(path) up to req.end(): the cached list, or a request
StartGetFiles(path) ==
    LET e == store[CacheKey(path)]
        seen == IF e.present THEN e.storedAt ELSE -1
    IN IF IsFresh(e)
       THEN [NoSub EXCEPT !.state = "hit", !.value = e.value, !.entryAt = seen]
       ELSE [NoSub EXCEPT !.state = "inflight", !.requests = 1, !.entryAt = seen]

SubDone(s) == s.state \in {"hit", "ok"}

\* the mutated form of PromiseAllValues: the values in order of completion
PromiseAllValuesAsCompleted(c) == [i \in 1..2 |-> c.sub[c.order[i]].value]

\* Promise.all([getFiles(), getFiles('Global')]) resolves with the values
\* in the order of the promises passed, whichever resolved first
PromiseAllValues(c) == <<c.sub[""].value, c.sub["Global"].value>>

\* Promise.all(...).then(merge): settles the call once its sub-calls allow
\* it; it rejects with the reason of the first sub-call that rejects
Join(c) ==
    IF c.state # "pending" THEN c
    ELSE IF \E p \in SubPaths : c.sub[p].state = "failed"
    THEN [c EXCEPT !.state = "rejected",
                   !.reason = c.sub[CHOOSE p \in SubPaths :
                                       c.sub[p].state = "failed"].error]
    ELSE IF \A p \in SubPaths : SubDone(c.sub[p])
    THEN LET result == PromiseAllValues(c)
         IN [c EXCEPT !.state = "resolved",
                      !.result = MergeResults(result[1], result[2])]
    ELSE c

\* the mutated form of ArraysAfterMerge: the second array is pushed onto
\* the first, which is then sorted
ArraysAfterMergeInPlace(root, global) == <<MergeResults(root, global), global>>

\* the two arrays passed to the merge, as they are after it: concat copies
\* them into a new array and sort() sorts the new array, so they are as
\* they were
ArraysAfterMerge(root, global) == <<root, global>>

\* the array a sub-call resolved with is the array held by the cache entry
\* it read or wrote, as long as that entry has not been replaced
HoldsArrayOf(e, sub) ==
    /\ e.present
    /\ e.storedAt = (IF sub.state = "hit" THEN sub.entryAt ELSE sub.filledAt)
    /\ e.value = sub.value

\* the cache after the merge of a call that went from before to after
StoreAfterMerge(st, before, after) ==
    IF before.state = "pending" /\ after.state = "resolved"
    THEN LET result == PromiseAllValues(after)
             arrays == ArraysAfterMerge(result[1], result[2])
             ArrayOf(p) == IF p = "" THEN arrays[1] ELSE arrays[2]
         IN [k \in CacheKeys |->
                IF \E p \in SubPaths : k = CacheKey(p) /\ HoldsArrayOf(st[k], after.sub[p])
                THEN [st[k] EXCEPT !.value =
                         ArrayOf(CHOOSE p \in SubPaths : k = CacheKey(p))]
                ELSE st[k]]
    ELSE st

\* the sub-calls of a new call that resolved from the cache, in call order
HitOrder(sub) ==
    (IF sub[""].state = "hit" THEN <<"">> ELSE <<>>) \o
    (IF sub["Global"].state = "hit" THEN <<"Global">> ELSE <<>>)

\* getTemplates() of the repository provider: both getFiles calls are started
GetTemplates ==
    /\ nCalls < callBudget
    /\ nCalls' = nCalls + 1
    /\ LET sub == [p \in SubPaths |-> StartGetFiles(p)]
           c == [NoGetTemplates EXCEPT
                    !.state = "pending",
                    !.sub = sub,
                    !.at = now,
                    !.afterResolved = (nCalls > 0 /\ gt[nCalls].state = "resolved"),
                    !.order = HitOrder(sub)]
       IN /\ gt' = [gt EXCEPT ![nCalls + 1] = Join(c)]
          /\ store' = StoreAfterMerge(store, c, Join(c))
          /\ GetAgentCalls(sub[""].requests + sub["Global"].requests)
    /\ UNCHANGED <<remote, callBudget, api, now, interval, lastGet>>

\* the mutated form of ListingOk: the listing is cached only if it makes
\* its getTemplates() call resolve
ListingOkCachedOnSuccess(c, path) ==
    /\ gt[c].sub[path].state = "inflight"
    /\ LET templates == FilterMap(path, remote[path])
           resolved == [gt[c] EXCEPT !.sub[path].state = "ok",
                                     !.sub[path].value = templates,
                                     !.sub[path].filledAt = now,
                                     !.order = @ \o <<path>>]
           added == [store EXCEPT ![CacheKey(path)] = CacheItem(templates)]
       IN /\ store' = IF Join(resolved).state = "resolved"
                       THEN StoreAfterMerge(added, resolved, Join(resolved))
                       ELSE store
          /\ gt' = [gt EXCEPT ![c] = Join(resolved)]
    /\ UNCHANGED <<remote, nCalls, callBudget, api, now, interval, lastGet>>

\* res.on('end') of a listing request with status 200
ListingOk(c, path) ==
    /\ gt[c].sub[path].state = "inflight"
    /\ LET templates == FilterMap(path, remote[path])
           resolved == [gt[c] EXCEPT !.sub[path].state = "ok",
                                     !.sub[path].value = templates,
                                     !.sub[path].filledAt = now,
                                     !.order = @ \o <<path>>]
           added == [store EXCEPT ![CacheKey(path)] = CacheItem(templates)]
       IN /\ store' = StoreAfterMerge(added, resolved, Join(resolved))
          /\ gt' = [gt EXCEPT ![c] = Join(resolved)]
    /\ UNCHANGED <<remote, nCalls, callBudget, api, now, interval, lastGet>>

\* reject(responseBody), reject(err.message): the promise is rejected with
\* the string
ListingRejection(text) == [kind |-> "string", text |-> text, code |-> 0]

\* the mutated form of ListingFailed: the failed listing is cached as empty
ListingFailedCached(c, path, body) ==
    /\ gt[c].sub[path].state = "inflight"
    /\ store' = [store EXCEPT ![CacheKey(path)] = CacheItem(<<>>)]
    /\ gt' = [gt EXCEPT ![c] =
                 Join([gt[c] EXCEPT !.sub[path].state = "failed",
                                    !.sub[path].failure = "status",
                                    !.sub[path].body = body,
                                    !.sub[path].error = ListingRejection(body)])]
    /\ UNCHANGED <<remote, nCalls, callBudget, api, now, interval, lastGet>>

\* res.on('end') of a listing request with another status: reject with the
\* response body, cache nothing
ListingFailed(c, path, body) ==
    /\ gt[c].sub[path].state = "inflight"
    /\ gt' = [gt EXCEPT ![c] =
                 Join([gt[c] EXCEPT !.sub[path].state = "failed",
                                    !.sub[path].failure = "status",
                                    !.sub[path].body = body,
                                    !.sub[path].error = ListingRejection(body)])]
    /\ UNCHANGED <<remote, nCalls, callBudget, api, cacheVars>>

\* req.on('error') of a listing request: reject with err.message, cache
\* nothing
ListingError(c, path) ==
    /\ gt[c].sub[path].state = "inflight"
    /\ gt' = [gt EXCEPT ![c] =
                 Join([gt[c] EXCEPT !.sub[path].state = "failed",
                                    !.sub[path].failure = "transport",
                                    !.sub[path].error =
                                        ListingRejection(NetworkErrorMessage)])]
    /\ UNCHANGED <<remote, nCalls, callBudget, api, cacheVars>>

\* the bodies of 200 answers that are not a JSON array: not JSON at all, and
\* a JSON object
InvalidListingBodies == {"<html>", "{}"}

\* res.on('end') of a listing request with status 200 and a body that is
\* not a JSON array: JSON.parse(responseBody) throws a SyntaxError, or
\* items.filter is not a function; the exception leaves the event handler,
\* neither resolve nor reject is called and nothing is cached
ListingInvalid(c, path, body) ==
    /\ gt[c].sub[path].state = "inflight"
    /\ gt' = [gt EXCEPT ![c] =
                 Join([gt[c] EXCEPT !.sub[path].state = "threw",
                                    !.sub[path].failure = "parse",
                                    !.sub[path].body = body])]
    /\ UNCHANGED <<remote, nCalls, callBudget, api, cacheVars>>

----------------------------------------------------------------------------
(* Template listing of the templates-API provider                          *)
(* (GithubGitignoreApiProvider.getTemplates)                               *)

ApiCacheKey == "gitignore"

\* the names the /gitignore/templates endpoint answers with, in the order
\* of the response
ApiRemote == <<<<"B">>, <<"a">>>>

\* templatesRaw.map(t => { name: t, path: t })
ApiToTemplate(t) == [name |-> t, path |-> t]

\* the mutated form of ApiTemplates: the templates are sorted by name
ApiTemplatesSorted(names) ==
    SortByName([i \in 1..Len(names) |-> ApiToTemplate(names[i])])

ApiTemplates(names) == [i \in 1..Len(names) |-> ApiToTemplate(names[i])]

\* number of getTemplates() calls of the API provider made so far
ApiCalls == Cardinality({c \in 1..MaxCalls : api[c].state # "unused"})

\* getTemplates() of the API provider up to req.end(): the cached list, or
\* a request
ApiGetTemplates ==
    /\ ApiCalls < callBudget
    /\ LET e == store[ApiCacheKey]
           seen == IF e.present THEN e.storedAt ELSE -1
       IN api' = [api EXCEPT ![ApiCalls + 1] =
                     IF IsFresh(e)
                     THEN [NoSub EXCEPT !.state = "hit", !.value = e.value,
                                        !.entryAt = seen]
                     ELSE [NoSub EXCEPT !.state = "inflight", !.requests = 1,
                                        !.entryAt = seen]]
    /\ GetAgentCalls(IF IsFresh(store[ApiCacheKey]) THEN 0 ELSE 1)
    /\ UNCHANGED <<remote, gt, nCalls, callBudget, cacheVars>>

\* res.on('end') of the templates request with status 200
ApiListingOk(c) ==
    /\ api[c].state = "inflight"
    /\ LET templates == ApiTemplates(ApiRemote)
       IN /\ store' = [store EXCEPT ![ApiCacheKey] = CacheItem(templates)]
          /\ api' = [api EXCEPT ![c].state = "ok", ![c].value = templates,
                                ![c].filledAt = now]
    /\ UNCHANGED <<remote, gt, nCalls, callBudget, now, interval, lastGet>>

\* res.on('end') of the templates request with another status: reject with
\* the response body, cache nothing
ApiListingFailed(c, body) ==
    /\ api[c].state = "inflight"
    /\ api' = [api EXCEPT ![c].state = "failed", ![c].failure = "status",
                          ![c].body = body, ![c].error = ListingRejection(body)]
    /\ UNCHANGED <<remote, gt, nCalls, callBudget, cacheVars>>

\* res.on('end') of the templates request with status 200 and a body that
\* is not a JSON array: JSON.parse(responseBody) or templatesRaw.map throws
\* in the event handler, neither resolve nor reject is called
ApiListingInvalid(c, body) ==
    /\ api[c].state = "inflight"
    /\ api' = [api EXCEPT ![c].state = "threw", ![c].failure = "parse",
                          ![c].body = body]
    /\ UNCHANGED <<remote, gt, nCalls, callBudget, cacheVars>>

\* req.on('error') of the templates request: reject with err.message
ApiListingError(c) ==
    /\ api[c].state = "inflight"
    /\ api' = [api EXCEPT ![c].state = "failed", ![c].failure = "transport",
                          ![c].error = ListingRejection(NetworkErrorMessage)]
    /\ UNCHANGED <<remote, gt, nCalls, callBudget, cacheVars>>

\* getTemplates() of the API provider, called by a caller that awaited its
\* previous call, in a behaviour whose provider is the API provider
ApiGetTemplatesAwaited ==
    /\ nCalls = 0
    /\ \A c \in 1..MaxCalls : api[c].state # "inflight"
    /\ ApiGetTemplates

\* getTemplates() of the repository provider, in a behaviour whose provider
\* is the repository provider
OnlyRepository == ApiCalls = 0

\* getTemplates() called by a caller that awaited its previous call
GetTemplatesAwaited ==
    /\ \A c \in 1..MaxCalls : gt[c].state # "pending"
    /\ GetTemplates

\* time passes, in steps of ListingStep ticks
Advance ==
    /\ now + ListingStep <= MaxTime
    /\ now' = now + ListingStep
    /\ UNCHANGED <<interval, store, lastGet>>

----------------------------------------------------------------------------
(* The 'Add gitignore' command (extension.ts, activate)                    *)

NoCommand == [pc |-> "idle", call |-> 0, template |-> UndefinedTemplate,
              type |-> "", error |-> FALSE, success |-> FALSE,
              stats |-> 0, runs |-> 0, cancelledBy |-> "",
              netAtEnd |-> 0, fsAtEnd |-> 0, dlAtEnd |-> 0,
              existed |-> "", picked |-> "", dlAtStart |-> 0]

CmdInit == cmd = NoCommand

\* network requests issued so far: listing requests and download requests
NetRequests ==
    LET RECURSIVE Sum(_)
        Sum(c) == IF c = 0 THEN 0
                  ELSE gt[c].sub[""].requests + gt[c].sub["Global"].requests + Sum(c - 1)
    IN Sum(MaxCalls) + dl.requests

\* filesystem operations of the current invocation: fs.stat, and the
\* createWriteStream and unlink of its download
FsOps(c) == c.stats + (IF dl.kind = "download" THEN 1 + dl.unlinks ELSE 0)

FsOperations == FsOps(cmd)

CmdEnded == cmd.pc \in {"idle", "done", "cancelled", "refused"}

\* the mutated form of Cancelled: the catch handler shows every reason
CancelledShown(c, by) ==
    [c EXCEPT !.pc = "cancelled", !.cancelledBy = by, !.error = TRUE,
              !.netAtEnd = NetRequests, !.fsAtEnd = FsOps(c),
              !.dlAtEnd = dlCount]

\* a CancellationError reaches the catch handler: return, nothing is shown
Cancelled(c, by) ==
    [c EXCEPT !.pc = "cancelled", !.cancelledBy = by,
              !.netAtEnd = NetRequests, !.fsAtEnd = FsOps(c),
              !.dlAtEnd = dlCount]

\* the command handler with no workspace open: an error message is shown
CmdRefuse ==
    /\ CmdEnded
    /\ cmd.runs < MaxInvocations
    /\ folders = 0
    /\ cmd' = [NoCommand EXCEPT !.pc = "refused", !.runs = cmd.runs + 1,
                                !.dlAtStart = dlCount,
                                !.error = TRUE,
                                !.netAtEnd = NetRequests,
                                !.fsAtEnd = FsOps(NoCommand),
                                !.dlAtEnd = dlCount]
    /\ UNCHANGED <<folders, dlVars, listVars, cacheVars, netVars>>

\* the command handler with a workspace open: getTemplates() is called
CmdInvoke ==
    /\ CmdEnded
    /\ cmd.runs < MaxInvocations
    /\ folders > 0
    /\ GetTemplates
    /\ cmd' = [NoCommand EXCEPT !.pc = "loading", !.runs = cmd.runs + 1,
                                !.dlAtStart = dlCount,
                                !.call = nCalls + 1]
    /\ UNCHANGED <<folders, dlVars>>

\* .then(templates => showQuickPick(items)), or .catch(showErrorMessage)
CmdTemplatesSettled ==
    /\ cmd.pc = "loading"
    /\ gt[cmd.call].state \in {"resolved", "rejected"}
    /\ cmd' = IF gt[cmd.call].state = "resolved"
              THEN [cmd EXCEPT !.pc = "pickTemplate"]
              ELSE [cmd EXCEPT !.pc = "done", !.error = TRUE]
    /\ UNCHANGED <<folders, dlVars, listVars, cacheVars, netVars>>

\* resolveWorkspaceFolder(template)
ResolveWorkspaceFolder(c) ==
    IF folders = 0 THEN Cancelled(c, "noWorkspace")
    ELSE IF folders = 1 THEN [c EXCEPT !.pc = "stat"]
    ELSE [c EXCEPT !.pc = "pickFolder"]

\* the template pick closes: with an item (i > 0), or without one (i = 0)
CmdPickTemplate(i) ==
    /\ cmd.pc = "pickTemplate"
    /\ i <= Len(gt[cmd.call].result)
    /\ cmd' = IF i = 0 THEN Cancelled(cmd, "templatePick")
              ELSE ResolveWorkspaceFolder(
                       [cmd EXCEPT !.template = gt[cmd.call].result[i]])
    /\ UNCHANGED <<folders, dlVars, listVars, cacheVars, netVars>>

\* the workspace folder pick closes: with a folder, or without one
CmdPickFolder(picked) ==
    /\ cmd.pc = "pickFolder"
    /\ cmd' = IF picked THEN [cmd EXCEPT !.pc = "stat"]
              ELSE Cancelled(cmd, "folderPick")
    /\ UNCHANGED <<folders, dlVars, listVars, cacheVars, netVars>>

\* the mutated form of OperationTypeOf: every pick overwrites
OperationTypeAlwaysOverwrite(label) == "Overwrite"

\* GitignoreOperationType[operation.label]: the member named by the label
OperationTypeOf(label) == CHOOSE type \in OperationTypes : type = label

\* gitignoreRepository.download(operation), called by the command
CmdDownload(c, type) ==
    /\ Download("Repository", type, c.template)
    /\ cmd' = [c EXCEPT !.pc = "downloading", !.type = type]

\* the callback of fs.stat(path): no file -> Overwrite, else the prompt
CmdStat ==
    /\ cmd.pc = "stat"
    /\ LET c == [cmd EXCEPT !.stats = @ + 1,
                            !.existed = IF file.exists THEN "yes" ELSE "no"]
       IN IF ~file.exists
          THEN CmdDownload(c, "Overwrite")
          ELSE /\ cmd' = [c EXCEPT !.pc = "prompt"]
               /\ UNCHANGED <<dlVars, netVars>>
    /\ UNCHANGED <<folders, listVars, cacheVars>>

\* the append / overwrite pick closes: with a label, or without one
CmdPrompt(label) ==
    /\ cmd.pc = "prompt"
    /\ IF label = Undefined
       THEN /\ cmd' = Cancelled(cmd, "operationPick")
            /\ UNCHANGED <<dlVars, netVars>>
       ELSE CmdDownload([cmd EXCEPT !.picked = label], OperationTypeOf(label))
    /\ UNCHANGED <<folders, listVars, cacheVars>>

\* .then(showSuccessMessage), or .catch(showErrorMessage)
CmdDownloadSettled ==
    /\ cmd.pc = "downloading"
    /\ dl.promise \in {"resolved", "rejected"}
    /\ cmd' = IF dl.promise = "resolved"
              THEN [cmd EXCEPT !.pc = "done", !.success = TRUE]
              ELSE [cmd EXCEPT !.pc = "done", !.error = TRUE]
    /\ UNCHANGED <<folders, dlVars, listVars, cacheVars, netVars>>

\* the user opens or closes workspace folders
WorkspaceChange(n) ==
    /\ folders' = n
    /\ n # folders
    /\ UNCHANGED <<cmd, dlVars, listVars, cacheVars, netVars>>

----------------------------------------------------------------------------
(* Specifications *)

NoRemote == [p \in SubPaths |-> <<>>]

Init ==
    /\ CacheInit /\ DlInit /\ ListInit /\ CmdInit /\ AgentInit
    /\ config = NoProxy
    /\ remote = NoRemote /\ callBudget = 0 /\ folders = 1

\* the caching specification: MaxCalls calls, each awaited before the next
CachingRemote ==
    [p \in SubPaths |->
        IF p = "" THEN <<[name |-> <<"B", Suffix>>, type |-> "file"],
                         [name |-> <<"a", Suffix>>, type |-> "dir"]>>
        ELSE <<[name |-> <<"a", Suffix>>, type |-> "file"]>>]

InitCaching ==
    /\ CacheInit /\ DlInit /\ ListInit /\ CmdInit /\ AgentInit
    /\ config = NoProxy
    /\ folders = 1
    /\ file = [exists |-> FALSE, content |-> <<>>]
    /\ remote = CachingRemote
    /\ callBudget = MaxCalls

\* the merge specification: every pair of remote listings, two calls
InitMerge ==
    /\ CacheInit /\ DlInit /\ ListInit /\ CmdInit /\ AgentInit
    /\ config = NoProxy
    /\ folders = 1
    /\ file = [exists |-> FALSE, content |-> <<>>]
    /\ remote \in [SubPaths -> Listings]
    /\ interval = 1
    /\ callBudget = 2

CachingNext ==
    \/ OnlyRepository /\ GetTemplatesAwaited /\ UNCHANGED <<dlVars, cmdVars>>
    \/ ApiGetTemplatesAwaited /\ UNCHANGED <<dlVars, cmdVars>>
    \/ \E c \in 1..MaxCalls : ApiListingOk(c) /\ UNCHANGED <<dlVars, cmdVars, netVars>>
    \/ \E c \in 1..MaxCalls : ApiListingFailed(c, "") /\ UNCHANGED <<dlVars, cmdVars, netVars>>
    \/ \E c \in 1..MaxCalls, p \in SubPaths : ListingOk(c, p) /\ UNCHANGED <<dlVars, cmdVars, netVars>>
    \/ \E c \in 1..MaxCalls, p \in SubPaths :
          ListingFailed(c, p, "") /\ UNCHANGED <<dlVars, cmdVars, netVars>>
    \/ Advance /\ UNCHANGED <<dlVars, listVars, cmdVars, netVars>>

SpecCaching == InitCaching /\ [][CachingNext]_vars

\* the listing-failure specification: two awaited calls whose listing
\* requests are answered with 200, with another status, or fail
InitFailure ==
    /\ CacheInit /\ DlInit /\ ListInit /\ CmdInit /\ AgentInit
    /\ config = NoProxy
    /\ folders = 1
    /\ file = [exists |-> FALSE, content |-> <<>>]
    /\ remote = CachingRemote
    /\ callBudget = 2

FailureNext ==
    \/ OnlyRepository /\ GetTemplatesAwaited /\ UNCHANGED <<dlVars, cmdVars>>
    \/ ApiGetTemplatesAwaited /\ UNCHANGED <<dlVars, cmdVars>>
    \/ \E c \in 1..MaxCalls : ApiListingOk(c) /\ UNCHANGED <<dlVars, cmdVars, netVars>>
    \/ \E c \in 1..MaxCalls, b \in ListingErrorBodies :
          ApiListingFailed(c, b) /\ UNCHANGED <<dlVars, cmdVars, netVars>>
    \/ \E c \in 1..MaxCalls : ApiListingError(c) /\ UNCHANGED <<dlVars, cmdVars, netVars>>
    \/ \E c \in 1..MaxCalls, p \in SubPaths : ListingOk(c, p) /\ UNCHANGED <<dlVars, cmdVars, netVars>>
    \/ \E c \in 1..MaxCalls, p \in SubPaths, b \in ListingErrorBodies :
          ListingFailed(c, p, b) /\ UNCHANGED <<dlVars, cmdVars, netVars>>
    \/ \E c \in 1..MaxCalls, p \in SubPaths : ListingError(c, p) /\ UNCHANGED <<dlVars, cmdVars, netVars>>
    \/ \E c \in 1..MaxCalls, p \in SubPaths, b \in InvalidListingBodies :
          ListingInvalid(c, p, b) /\ UNCHANGED <<dlVars, cmdVars, netVars>>
    \/ \E c \in 1..MaxCalls, b \in InvalidListingBodies :
          ApiListingInvalid(c, b) /\ UNCHANGED <<dlVars, cmdVars, netVars>>
    \/ Advance /\ UNCHANGED <<dlVars, listVars, cmdVars, netVars>>

SpecFailure == InitFailure /\ [][FailureNext]_vars

MergeNext ==
    \/ GetTemplates /\ UNCHANGED <<dlVars, cmdVars>>
    \/ \E c \in 1..MaxCalls, p \in SubPaths : ListingOk(c, p) /\ UNCHANGED <<dlVars, cmdVars, netVars>>
    \/ \E c \in 1..MaxCalls, p \in SubPaths :
          ListingFailed(c, p, "") /\ UNCHANGED <<dlVars, cmdVars, netVars>>

SpecMerge == InitMerge /\ [][MergeNext]_vars

CacheNext ==
    \/ \E k \in TestKeys, v \in CacheValues : CacheAdd(k, v) /\ UNCHANGED <<dlVars, listVars, cmdVars, netVars>>
    \/ \E k \in TestKeys : CacheGet(k) /\ UNCHANGED <<dlVars, listVars, cmdVars, netVars>>
    \/ Tick /\ UNCHANGED <<dlVars, listVars, cmdVars, netVars>>

SpecCache == Init /\ [][CacheNext]_vars

DownloadNext ==
    \/ \E p \in Providers, ty \in OperationTypes, t \in TemplateValues :
          Download(p, ty, t) /\ UNCHANGED <<cacheVars, listVars, cmdVars>>
    \/ \E p \in Providers, ty \in OperationTypes, t \in TemplateValues :
          DownloadToStream(p, ty, t) /\ UNCHANGED <<cacheVars, listVars, cmdVars>>
    \/ \E s \in Statuses, b \in Bodies : Response(s, b) /\ UNCHANGED <<cacheVars, listVars, cmdVars, netVars>>
    \/ WriteChunk /\ UNCHANGED <<cacheVars, listVars, cmdVars, netVars>>
    \/ Finish /\ UNCHANGED <<cacheVars, listVars, cmdVars, netVars>>
    \/ \E uf \in BOOLEAN : NetworkError(uf) /\ UNCHANGED <<cacheVars, listVars, cmdVars, netVars>>
    \/ \E cause \in StreamErrorCauses :
          StreamError(cause) /\ UNCHANGED <<cacheVars, listVars, cmdVars, netVars>>

SpecDownload == Init /\ [][DownloadNext]_vars

\* the events of a download call that the remote endpoint and the event
\* loop deliver: an answer or a connection error, the chunks, 'finish'
Answered ==
    /\ \/ \E s \in Statuses, b \in Bodies : Response(s, b)
       \/ \E uf \in BOOLEAN : NetworkError(uf)
    /\ UNCHANGED <<cacheVars, listVars, cmdVars, netVars>>

Piped == (WriteChunk \/ Finish) /\ UNCHANGED <<cacheVars, listVars, cmdVars, netVars>>

\* the download specification with a remote endpoint that answers or
\* errors and an event loop that delivers the pending events
SpecDownloadLive ==
    Init /\ [][DownloadNext]_vars /\ WF_vars(Answered) /\ WF_vars(Piped)

\* the provider-suite specification: one provider's templates are listed,
\* then download and downloadToStream calls are made
InitSuite ==
    /\ CacheInit /\ DlInit /\ ListInit /\ CmdInit /\ AgentInit
    /\ config = NoProxy
    /\ folders = 1
    /\ interval = 1
    /\ file = [exists |-> TRUE, content |-> <<"A", LF>>]
    /\ remote = CachingRemote
    /\ callBudget = 1

\* the getTemplates() call of the suite is over, and so are its requests
Listed ==
    /\ nCalls + ApiCalls = callBudget
    /\ \A c \in 1..MaxCalls :
          /\ api[c].state # "inflight"
          /\ \A p \in SubPaths : gt[c].sub[p].state # "inflight"

SuiteNext ==
    \/ OnlyRepository /\ GetTemplatesAwaited /\ UNCHANGED <<dlVars, cmdVars>>
    \/ ApiGetTemplatesAwaited /\ UNCHANGED <<dlVars, cmdVars>>
    \/ \E c \in 1..MaxCalls, p \in SubPaths : ListingOk(c, p) /\ UNCHANGED <<dlVars, cmdVars, netVars>>
    \/ \E c \in 1..MaxCalls, p \in SubPaths :
          ListingFailed(c, p, "") /\ UNCHANGED <<dlVars, cmdVars, netVars>>
    \/ \E c \in 1..MaxCalls, p \in SubPaths : ListingError(c, p) /\ UNCHANGED <<dlVars, cmdVars, netVars>>
    \/ \E c \in 1..MaxCalls : ApiListingOk(c) /\ UNCHANGED <<dlVars, cmdVars, netVars>>
    \/ \E c \in 1..MaxCalls : ApiListingFailed(c, "") /\ UNCHANGED <<dlVars, cmdVars, netVars>>
    \/ \E c \in 1..MaxCalls : ApiListingError(c) /\ UNCHANGED <<dlVars, cmdVars, netVars>>
    \/ /\ Listed
       /\ \E p \in Providers, ty \in OperationTypes :
             \/ Download(p, ty, TemplateC)
             \/ DownloadToStream(p, ty, TemplateC)
       /\ UNCHANGED <<cacheVars, listVars, cmdVars>>
    \/ Answered
    \/ Piped
    \/ \E cause \in StreamErrorCauses :
          StreamError(cause) /\ UNCHANGED <<cacheVars, listVars, cmdVars, netVars>>

SpecSuite == InitSuite /\ [][SuiteNext]_vars

\* the command specification: the command is run MaxInvocations times
InitCommand ==
    /\ CacheInit /\ DlInit /\ ListInit /\ CmdInit /\ AgentInit
    /\ config = NoProxy
    /\ folders \in 0..2
    /\ remote = CachingRemote
    /\ callBudget = MaxInvocations

CommandNext ==
    \/ CmdRefuse
    \/ CmdInvoke
    \/ \E c \in 1..MaxCalls, p \in SubPaths :
          ListingOk(c, p) /\ UNCHANGED <<dlVars, cmdVars, netVars>>
    \/ \E c \in 1..MaxCalls, p \in SubPaths :
          ListingFailed(c, p, "") /\ UNCHANGED <<dlVars, cmdVars, netVars>>
    \/ CmdTemplatesSettled
    \/ \E i \in 0..(2 * MaxListing) : CmdPickTemplate(i)
    \/ \E b \in BOOLEAN : CmdPickFolder(b)
    \/ CmdStat
    \/ \E l \in OperationTypes \cup {Undefined} : CmdPrompt(l)
    \/ \E s \in Statuses :
          Response(s, <<"B">>) /\ UNCHANGED <<cacheVars, listVars, cmdVars, netVars>>
    \/ WriteChunk /\ UNCHANGED <<cacheVars, listVars, cmdVars, netVars>>
    \/ Finish /\ UNCHANGED <<cacheVars, listVars, cmdVars, netVars>>
    \/ \E uf \in BOOLEAN : NetworkError(uf) /\ UNCHANGED <<cacheVars, listVars, cmdVars, netVars>>
    \/ CmdDownloadSettled
    \/ \E n \in 0..2 : WorkspaceChange(n)

SpecCommand == InitCommand /\ [][CommandNext]_vars

\* the remote repository after a commit that adds a template to the root
\* directory and removes the one of Global
ChangedRemote ==
    [p \in SubPaths |->
        IF p = "" THEN <<[name |-> <<"B", Suffix>>, type |-> "file"],
                         [name |-> <<"a", Suffix>>, type |-> "file"]>>
        ELSE <<>>]

\* the remote repository changes between two listing responses
RemoteChange ==
    /\ remote = CachingRemote
    /\ remote' = ChangedRemote
    /\ UNCHANGED <<gt, nCalls, callBudget, api>>

\* getTemplates() of the API provider, in a behaviour whose provider is the
\* API provider
OnlyApi == nCalls = 0

\* the concurrency specification: two getTemplates() calls of one provider,
\* the second not waiting for the first, while time passes and the remote
\* repository changes
InitConcurrent ==
    /\ CacheInit /\ DlInit /\ ListInit /\ CmdInit /\ AgentInit
    /\ config = NoProxy
    /\ interval = 1
    /\ folders = 1
    /\ file = [exists |-> FALSE, content |-> <<>>]
    /\ remote = CachingRemote
    /\ callBudget = 2

ConcurrentNext ==
    \/ OnlyRepository /\ GetTemplates /\ UNCHANGED <<dlVars, cmdVars>>
    \/ OnlyApi /\ ApiGetTemplates /\ UNCHANGED <<dlVars, cmdVars>>
    \/ \E c \in 1..MaxCalls, p \in SubPaths : ListingOk(c, p) /\ UNCHANGED <<dlVars, cmdVars, netVars>>
    \/ \E c \in 1..MaxCalls : ApiListingOk(c) /\ UNCHANGED <<dlVars, cmdVars, netVars>>
    \/ RemoteChange /\ UNCHANGED <<cacheVars, dlVars, cmdVars, netVars>>
    \/ Advance /\ UNCHANGED <<dlVars, listVars, cmdVars, netVars>>

SpecConcurrent == InitConcurrent /\ [][ConcurrentNext]_vars

\* the proxy specification: the proxy sources start in any combination and
\* change between the requests of listings and downloads
InitAgent ==
    /\ CacheInit /\ DlInit /\ ListInit /\ CmdInit /\ AgentInit
    /\ config \in ProxyConfigs
    /\ interval = 0
    /\ folders = 1
    /\ file = [exists |-> FALSE, content |-> <<>>]
    /\ remote = CachingRemote
    /\ callBudget = 1

AgentNext ==
    \/ \E c \in ProxyConfigs :
          ConfigChange(c) /\ UNCHANGED <<cacheVars, dlVars, listVars, cmdVars>>
    \/ OnlyRepository /\ GetTemplatesAwaited /\ UNCHANGED <<dlVars, cmdVars>>
    \/ ApiGetTemplatesAwaited /\ UNCHANGED <<dlVars, cmdVars>>
    \/ \E c \in 1..MaxCalls, p \in SubPaths : ListingOk(c, p) /\ UNCHANGED <<dlVars, cmdVars, netVars>>
    \/ \E c \in 1..MaxCalls : ApiListingOk(c) /\ UNCHANGED <<dlVars, cmdVars, netVars>>
    \/ /\ Listed
       /\ \E p \in Providers : Download(p, "Overwrite", TemplateC)
       /\ UNCHANGED <<cacheVars, listVars, cmdVars>>
    \/ Response(200, <<>>) /\ UNCHANGED <<cacheVars, listVars, cmdVars, netVars>>
    \/ Finish /\ UNCHANGED <<cacheVars, listVars, cmdVars, netVars>>

SpecAgent == InitAgent /\ [][AgentNext]_vars

----------------------------------------------------------------------------
(* Claims *)

NonOkStatus(d) == d.status # 0 /\ d.status # 200

\* C1: a download in Overwrite mode whose fetch answers with a non-200
\* status leaves no destination file and rejects with an error that carries
\* the status code.
C1_OverwriteRollbackOnNon200 ==
    (dl.kind = "download" /\ dl.type = "Overwrite" /\ dl.pc = "failed"
        /\ NonOkStatus(dl))
    => /\ ~file.exists
       /\ dl.promise = "rejected"
       /\ dl.value.kind = "Error" /\ dl.value.code = dl.status

\* the case of C2: a finished Append download of "B" to a file holding "A\n"
C2_Case ==
    /\ dl.kind = "download" /\ dl.type = "Append" /\ dl.pc = "done"
    /\ dl.pre = [exists |-> TRUE, content |-> <<"A", LF>>]
    /\ dl.body = <<"B">>

\* C2 as stated: the final content is "A\nB".
C2_AppendYieldsANewlineB == C2_Case => file.content = <<"A", LF, "B">>

\* C2 as amended: a successful Append download of "B" to a file holding
\* "A\n" leaves "A\n\nB": the previous content, the separator, the template.
C2_AppendYieldsSeparator ==
    C2_Case => file.exists /\ file.content = <<"A", LF, LF, "B">>

\* the case of C2 has happened and the call has resolved
C2_Witness == C2_Case /\ dl.promise = "resolved"

\* the expiration window of the cache, in ticks
Window == interval * TicksPerSecond

Started(c) == gt[c].state # "unused"

\* C3: of two consecutive getTemplates() calls, the second started after the
\* first resolved and within the expiration window of what the first cached,
\* only the first issues a request for a sub-path (one request in total); a
\* call started when the cached listing of a sub-path is at least the
\* expiration interval old (or absent) issues a fresh request for it.
C3_IdempotentCaching ==
    /\ \A c \in 1..(MaxCalls - 1), p \in SubPaths :
          (/\ Started(c + 1)
           /\ gt[c + 1].afterResolved
           /\ gt[c].sub[p].requests = 1
           /\ gt[c + 1].at - gt[c].sub[p].filledAt < Window)
          => gt[c].sub[p].requests + gt[c + 1].sub[p].requests = 1
    /\ \A c \in 1..MaxCalls, p \in SubPaths :
          (/\ Started(c)
           /\ \/ gt[c].sub[p].entryAt < 0
              \/ gt[c].at - gt[c].sub[p].entryAt >= Window)
          => gt[c].sub[p].requests = 1

\* three awaited calls: the first fetches both listings, the second within
\* the window fetches nothing, the third after the window fetches both again
C3_Witness ==
    /\ interval = 1
    /\ MaxCalls >= 3
    /\ gt[1].state = "resolved" /\ gt[2].state = "resolved" /\ gt[3].state = "resolved"
    /\ gt[2].afterResolved /\ gt[3].afterResolved
    /\ \A p \in SubPaths :
          /\ gt[1].sub[p].requests = 1
          /\ gt[2].sub[p].requests = 0
          /\ gt[2].at - gt[1].sub[p].filledAt < Window
          /\ gt[3].sub[p].requests = 1
          /\ gt[3].sub[p].entryAt >= 0
          /\ gt[3].at - gt[3].sub[p].entryAt >= Window

\* what get(k) has to return by the freshness rule, stated on the entry
Expected(k) ==
    IF store[k].present /\ now - store[k].storedAt < interval * TicksPerSecond
    THEN store[k].value ELSE Undefined

\* C4: get(K) returns the stored value exactly when now - storedAt is less
\* than the expiration interval and undefined otherwise, and a key that is
\* absent stays absent until it is added again.
C4_GetFreshness ==
    [][ /\ \A k \in TestKeys : CacheGet(k) => lastGet'.result = Expected(k)
        /\ \A k \in TestKeys :
              (CacheGetValue(k) = Undefined /\ store'[k] = store[k])
              => CacheGetValue(k)' = Undefined ]_vars

\* interval 1 s: a get 1.1 s after the add has returned undefined
C4_Witness ==
    /\ interval = 1
    /\ lastGet.called /\ lastGet.result = Undefined
    /\ lastGet.age = TicksPerSecond + 1

\* C5 as stated: for every cache, get(K) right after add(K, V) returns V.
C5_GetAfterAdd ==
    [][ \A k \in TestKeys :
          (CacheGet(k) /\ store[k].present /\ store[k].storedAt = now)
          => lastGet'.result = store[k].value ]_vars

\* C5 as amended: for every cache with a positive expiration interval,
\* get(K) right after add(K, V), no time elapsed, returns V.
C5_GetAfterAddPositiveInterval ==
    [][ \A k \in TestKeys :
          (CacheGet(k) /\ store[k].present /\ store[k].storedAt = now
              /\ interval > 0)
          => lastGet'.result = store[k].value ]_vars

\* a get at the very time of the add has returned the value added
C5_Witness ==
    /\ interval > 0
    /\ lastGet.called /\ lastGet.age = 0
    /\ lastGet.result = store[lastGet.key].value

\* the positions of the entries of a remote listing that are templates
Kept(p) == {j \in 1..Len(remote[p]) :
               remote[p][j].type = "file" /\ EndsWithSuffix(remote[p][j].name)}

\* C6: the list getTemplates() resolves with is sorted ascending by name,
\* holds only entries of the two listings that are files with the
\* .gitignore suffix, and holds every such entry of both listings once.
C6_MergedListing ==
    \A c \in 1..MaxCalls :
        gt[c].state = "resolved" =>
        LET r == gt[c].result
        IN /\ \A i \in 1..(Len(r) - 1) : LocaleCompare(r[i].name, r[i + 1].name) <= 0
           /\ \A i \in 1..Len(r) :
                 \E p \in SubPaths : \E j \in Kept(p) :
                    r[i].path = ItemPath(p, remote[p][j])
           /\ \A p \in SubPaths : \A j \in Kept(p) :
                 \E i \in 1..Len(r) : r[i].path = ItemPath(p, remote[p][j])
           /\ Len(r) = Cardinality(Kept("")) + Cardinality(Kept("Global"))

\* a resolved list of three templates that sorting has reordered, from
\* listings of which an entry has been filtered out
C6_Witness ==
    \E c \in 1..MaxCalls :
        /\ gt[c].state = "resolved"
        /\ Len(gt[c].result) = 3
        /\ gt[c].result # gt[c].sub[""].value \o gt[c].sub["Global"].value
        /\ \E p \in SubPaths : Cardinality(Kept(p)) < Len(remote[p])

\* what a command that ended without doing anything leaves behind
NothingAfterEnd ==
    /\ ~cmd.success
    /\ NetRequests = cmd.netAtEnd
    /\ FsOperations = cmd.fsAtEnd
    /\ dlCount = cmd.dlAtEnd

\* C7 as stated: every cancellation outcome, no open workspace included,
\* ends the command without a further request or filesystem operation and
\* without an error or success message.
C7_CancellationSilent ==
    cmd.pc \in {"cancelled", "refused"} => (NothingAfterEnd /\ ~cmd.error)

\* C7 as amended: a closed template, folder or append/overwrite pick, or
\* the workspace folders being gone when the target is resolved, ends the
\* command without a further request, filesystem operation or message; with
\* no workspace open when the command starts, nothing is requested or
\* written either, but the error message 'No workspace/directory open' is
\* shown.
C7_CancellationSilentAfterStart ==
    /\ cmd.pc = "cancelled" => (NothingAfterEnd /\ ~cmd.error)
    /\ cmd.pc = "refused" =>
          (NothingAfterEnd /\ cmd.error /\ cmd.call = 0 /\ cmd.stats = 0)

\* the second run of the command is cancelled at the append/overwrite pick
C7_Witness ==
    /\ cmd.pc = "cancelled" /\ cmd.cancelledBy = "operationPick"
    /\ cmd.runs = 2 /\ cmd.stats = 1

\* C8: download(operation) without a template fails synchronously before
\* any I/O: the destination is neither created, truncated nor appended to,
\* and no request is issued.
C8_NoTemplateNoIO ==
    (dl.kind = "download" /\ ~HasTemplate(dl.template))
    => (dl.thrown /\ file = dl.pre /\ dl.requests = 0)

\* C9: downloadToStream(operation, sink) without a template, null or
\* undefined, throws synchronously, returns no promise, writes nothing to
\* the sink and issues no request.
C9_StreamFailsFast ==
    (dl.kind = "downloadToStream" /\ ~HasTemplate(dl.template))
    => (dl.thrown /\ dl.promise = "none" /\ sink = dl.preSink /\ dl.requests = 0)

\* what the destination holds before the first byte of the response
Base(d) ==
    IF d.kind = "downloadToStream" THEN d.preSink
    ELSE IF d.type = "Overwrite" THEN <<>>
    ELSE (IF d.pre.exists THEN d.pre.content ELSE <<>>) \o <<LF>>

Destination(d) == IF d.kind = "download" THEN file.content ELSE sink

\* C10: a download or downloadToStream call is resolved only after a 200
\* response whose body has been written whole to the destination, which
\* has finished and been closed; it is never resolved after a non-200
\* response or a network error, and a settled call never changes its
\* outcome.
C10_NoPartialSuccess ==
    /\ [](dl.promise = "resolved" =>
            /\ dl.status = 200 /\ ~dl.netError
            /\ dl.finished /\ dl.closed
            /\ dl.remaining = <<>>
            /\ Destination(dl) = Base(dl) \o dl.body)
    /\ []((NonOkStatus(dl) \/ dl.netError) => dl.promise = "rejected")
    /\ [][(dl.promise \in {"resolved", "rejected"} /\ dlCount' = dlCount)
            => dl'.promise = dl.promise]_vars

\* a second download, in Append mode, has resolved with a two-chunk body
C10_Witness ==
    /\ dl.promise = "resolved" /\ dl.kind = "download" /\ dl.type = "Append"
    /\ Len(dl.body) = 2
    /\ dlCount = 2

\* C11: every download or downloadToStream call that is fetching or
\* writing eventually reaches Done (resolved) or Failed (rejected), given
\* that the remote endpoint answers or the connection errors: also after a
\* stream-level error while writing (response aborted, destination write
\* error), which has to lead to Failed.
C11_EventuallyTerminal ==
    (dl.pc \in {"fetching", "writing"}) ~> (dl.pc \in {"done", "failed"})

\* C12: a successful download or downloadToStream call, of either
\* provider, resolves with the operation it was passed, type and template.
C12_ResolvesWithOperation ==
    dl.promise = "resolved"
    => dl.value = [kind |-> "operation", type |-> dl.type, template |-> dl.template]

IsPrefix(a, b) == Len(a) <= Len(b) /\ SubSeq(b, 1, Len(a)) = a

\* C14: during and after a download in Append mode, whatever its outcome,
\* a destination file that existed before the call exists and starts with
\* the content it had before the call.
C14_AppendKeepsFile ==
    (dl.kind = "download" /\ dl.type = "Append" /\ dl.pre.exists)
    => (file.exists /\ IsPrefix(dl.pre.content, file.content))

\* an Append download to a file holding "A\n" has failed by a network error
C14_Witness ==
    /\ dl.kind = "download" /\ dl.type = "Append"
    /\ dl.pre = [exists |-> TRUE, content |-> <<"A", LF>>]
    /\ dl.pc = "failed" /\ dl.netError

\* C15: a downloadToStream call of either provider, whatever its outcome
\* and whatever operation.type and operation.path are, leaves the local
\* filesystem as it was before the call.
C15_StreamTouchesNoFile ==
    dl.kind = "downloadToStream" => file = dl.pre

\* the bytes a downloadToStream call starting at sink content pre has
\* written to the sink
Written(pre) == SubSeq(sink, Len(pre) + 1, Len(sink))

\* a finished call in Overwrite mode
DoneOverwrite(d, kind) == d.kind = kind /\ d.type = "Overwrite" /\ d.pc = "done"

\* C16: for the same template and the same 200 response body, the bytes
\* downloadToStream in Overwrite mode writes to the sink are the content
\* download in Overwrite mode leaves in the destination file, in whichever
\* order the two calls are made.
C16_StreamEqualsFile ==
    /\ (/\ DoneOverwrite(dl, "downloadToStream") /\ DoneOverwrite(dl.prev, "download")
        /\ dl.template = dl.prev.template /\ dl.body = dl.prev.body)
       => Written(dl.preSink) = file.content
    /\ (/\ DoneOverwrite(dl, "download") /\ DoneOverwrite(dl.prev, "downloadToStream")
        /\ dl.template = dl.prev.template /\ dl.body = dl.prev.body)
       => Written(dl.prev.preSink) = file.content

\* a download and then a downloadToStream of the same two-chunk body
C16_Witness ==
    /\ DoneOverwrite(dl, "downloadToStream") /\ DoneOverwrite(dl.prev, "download")
    /\ dl.template = dl.prev.template /\ dl.body = dl.prev.body
    /\ Len(dl.body) = 2

\* C13: a listing request answered with a non-200 status rejects its
\* listing call with the raw response body, and one that fails in transport
\* rejects it with the error message; neither changes the cache entry of
\* its key, getTemplates() rejects with the reason of a failed listing call,
\* and the next getTemplates() call issues a new request for that sub-path.
C13_ListingFailure ==
    /\ [](\A c \in 1..MaxCalls, p \in SubPaths :
             gt[c].sub[p].state = "failed" =>
                /\ gt[c].sub[p].failure = "status"
                      => gt[c].sub[p].error = ListingRejection(gt[c].sub[p].body)
                /\ gt[c].sub[p].failure = "transport"
                      => gt[c].sub[p].error = ListingRejection(NetworkErrorMessage)
                /\ gt[c].state = "rejected"
                /\ \E q \in SubPaths : /\ gt[c].sub[q].state = "failed"
                                        /\ gt[c].reason = gt[c].sub[q].error
                /\ (c < MaxCalls /\ Started(c + 1))
                      => gt[c + 1].sub[p].requests = 1)
    /\ [](\A c \in 1..MaxCalls :
             api[c].state = "failed" =>
                /\ api[c].failure = "status"
                      => api[c].error = ListingRejection(api[c].body)
                /\ api[c].failure = "transport"
                      => api[c].error = ListingRejection(NetworkErrorMessage)
                /\ (c < MaxCalls /\ api[c + 1].state # "unused")
                      => api[c + 1].requests = 1)
    /\ [][\A c \in 1..MaxCalls, p \in SubPaths :
             (gt[c].sub[p].state = "inflight" /\ gt'[c].sub[p].state = "failed")
             => store' = store]_vars
    /\ [][\A c \in 1..MaxCalls :
             (api[c].state = "inflight" /\ api'[c].state = "failed")
             => store' = store]_vars

\* the first call was rejected with the body of a non-200 answer for the
\* root listing after its Global listing had been cached; the second call
\* requests the root listing again and fails in transport
C13_Witness ==
    /\ gt[1].state = "rejected"
    /\ gt[1].sub[""].failure = "status" /\ gt[1].sub[""].body # ""
    /\ gt[1].sub["Global"].state = "ok"
    /\ gt[2].state = "rejected"
    /\ gt[2].sub[""].requests = 1 /\ gt[2].sub[""].failure = "transport"
    /\ gt[2].sub["Global"].state = "hit"

\* the templates of a sub-path of the remote repository
Fixed(p) == FilterMap(p, remote[p])

Occurrences(l, t) == Cardinality({i \in 1..Len(l) : l[i] = t})

\* C17: with an unchanged remote listing, every getTemplates() call, however
\* many were made before it, resolves with the same list, in which each
\* template of the root directory appears exactly once, and the lists held
\* in the cache stay the listings that were fetched: merging and sorting do
\* not modify or accumulate them.
C17_StableListing ==
    /\ \A c \in 1..MaxCalls :
          gt[c].state = "resolved" =>
             /\ gt[c].result = MergeResults(Fixed(""), Fixed("Global"))
             /\ \A i \in 1..Len(Fixed("")) :
                   Occurrences(gt[c].result, Fixed("")[i]) = 1
    /\ \A p \in SubPaths :
          store[CacheKey(p)].present => store[CacheKey(p)].value = Fixed(p)

\* three calls have resolved, the second and the third from the cache
C17_Witness ==
    /\ MaxCalls >= 3
    /\ \A c \in 1..3 : gt[c].state = "resolved"
    /\ \A c \in 2..3, p \in SubPaths : gt[c].sub[p].state = "hit"
    /\ Len(gt[3].result) = 2

\* C18: with fixed responses, the list getTemplates() resolves with does
\* not depend on which of its two listing requests completed first: it is
\* the merge of the root listing and the Global listing in that order, so
\* templates with equal names keep the same relative order.
C18_OrderIndependent ==
    \A c \in 1..MaxCalls :
        gt[c].state = "resolved"
        => gt[c].result = MergeResults(Fixed(""), Fixed("Global"))

\* two calls have resolved, one with the root listing answered first and
\* one with the Global listing answered first, the two listings holding
\* templates of the same name
C18_Witness ==
    \E c, d \in 1..MaxCalls :
        /\ gt[c].state = "resolved" /\ gt[d].state = "resolved"
        /\ gt[c].order = <<"", "Global">> /\ gt[d].order = <<"Global", "">>
        /\ \A p \in SubPaths : gt[c].sub[p].state = "ok" /\ gt[d].sub[p].state = "ok"
        /\ \E i \in 1..Len(Fixed("")), j \in 1..Len(Fixed("Global")) :
              Fixed("")[i].name = Fixed("Global")[j].name

\* C20: in a cache with expiration interval 0 no entry is ever readable,
\* not even at the time it was added, so every getFiles call of every
\* getTemplates() call of a provider built on it issues a request.
C20_ZeroIntervalNeverCaches ==
    interval = 0 =>
       /\ \A k \in CacheKeys : ~IsFresh(store[k])
       /\ \A c \in 1..MaxCalls, p \in SubPaths :
             Started(c) => (gt[c].sub[p].requests = 1 /\ gt[c].sub[p].state # "hit")
       /\ \A c \in 1..MaxCalls :
             api[c].state # "unused" => (api[c].requests = 1 /\ api[c].state # "hit")

\* interval 0: a third call, started at the very time the second call
\* filled the cache, has requested both listings again
C20_Witness ==
    /\ interval = 0
    /\ MaxCalls >= 3
    /\ \A c \in 1..3 : gt[c].state = "resolved"
    /\ \A p \in SubPaths :
          /\ gt[3].sub[p].requests = 1
          /\ gt[3].sub[p].entryAt = gt[3].at

\* a call that has reached Done or Failed
Terminal(d) == d.pc \in {"done", "failed"}

Settled(sub) == sub.state \in {"hit", "ok", "failed"}

\* C19: no operation retries: a listing call, a download and a
\* downloadToStream each issue at most one request, and a call that has
\* reached Done or Failed makes no further step: no request, no change of
\* its state, of the destination file or of the sink.
C19_NoRetry ==
    /\ [](/\ dl.requests <= 1
          /\ \A c \in 1..MaxCalls :
                /\ api[c].requests <= 1
                /\ \A p \in SubPaths : gt[c].sub[p].requests <= 1)
    /\ [][(Terminal(dl) /\ dlCount' = dlCount)
            => (dl' = dl /\ file' = file /\ sink' = sink)]_vars
    /\ [][\A c \in 1..MaxCalls :
            /\ Settled(api[c]) => api'[c] = api[c]
            /\ \A p \in SubPaths :
                  Settled(gt[c].sub[p]) => gt'[c].sub[p] = gt[c].sub[p]]_vars

\* after a listing that requested both sub-paths, of which one failed, a
\* download has finished and a downloadToStream has failed by a network
\* error, each with one request
C19_Witness ==
    /\ \A p \in SubPaths : gt[1].sub[p].requests = 1
    /\ \E p \in SubPaths : gt[1].sub[p].state = "failed"
    /\ dl.kind = "downloadToStream" /\ dl.pc = "failed" /\ dl.netError
    /\ dl.requests = 1
    /\ dl.prev.kind = "download" /\ dl.prev.pc = "done"

\* no proxy source holds a non-empty value
Unconfigured(c) ==
    ~Truthy(c.setting) /\ ~Truthy(c.HTTPS_PROXY) /\ ~Truthy(c.HTTP_PROXY)

\* C21: the transport agent is a memoized singleton: over any sequence of
\* getAgent() calls and changes of the proxy sources an agent is constructed
\* at most once, the agent once constructed is never replaced, every later
\* call returns it even if the proxy has changed or been removed, and a call
\* made while no agent exists and no proxy is configured returns nothing.
C21_AgentSingleton ==
    /\ [](agent.instance <= 1)
    /\ [][agent.instance # 0 => agent' = agent]_vars
    /\ [](lastAgent.called =>
            /\ lastAgent.returned = agent
            /\ lastAgent.before.instance # 0
                  => lastAgent.returned = lastAgent.before
            /\ (lastAgent.before.instance = 0 /\ Unconfigured(lastAgent.config))
                  => lastAgent.returned = NoAgent)

\* an agent built for the proxy of the setting is returned by a call made
\* after every proxy source has been unset
C21_Witness ==
    /\ lastAgent.called
    /\ lastAgent.config = NoProxy /\ config = NoProxy
    /\ lastAgent.before.instance = 1
    /\ lastAgent.returned.proxy = "http://setting"

\* the first truthy of the three sources in the order setting, HTTPS_PROXY,
\* HTTP_PROXY, or none
FirstNonEmpty(c) ==
    IF Truthy(c.setting) THEN c.setting
    ELSE IF Truthy(c.HTTPS_PROXY) THEN c.HTTPS_PROXY
    ELSE IF Truthy(c.HTTP_PROXY) THEN c.HTTP_PROXY
    ELSE Undefined

\* C23 as stated: proxy resolution returns the first non-empty value in the
\* order setting, HTTPS_PROXY, HTTP_PROXY, and undefined when all three are
\* empty or unset.
C23_FirstNonEmptyElseUndefined ==
    (lastAgent.called /\ lastAgent.proxy # NotRead)
    => lastAgent.proxy = FirstNonEmpty(lastAgent.config)

\* C23: proxy resolution returns the first non-empty value in the order
\* setting, HTTPS_PROXY, HTTP_PROXY; when all three are empty or unset it
\* returns the value of HTTP_PROXY, which is the empty string if the
\* variable is set to the empty string and undefined if it is unset: never
\* a non-empty value.
C23_FirstNonEmptyElseLast ==
    (lastAgent.called /\ lastAgent.proxy # NotRead)
    => /\ ~Unconfigured(lastAgent.config)
             => lastAgent.proxy = FirstNonEmpty(lastAgent.config)
       /\ Unconfigured(lastAgent.config)
             => /\ lastAgent.proxy = lastAgent.config.HTTP_PROXY
                /\ ~Truthy(lastAgent.proxy)

\* with an empty setting, HTTPS_PROXY wins over HTTP_PROXY
C23_Witness ==
    /\ lastAgent.called
    /\ lastAgent.config = [setting |-> "", HTTPS_PROXY |-> "http://https-env",
                           HTTP_PROXY |-> "http://http-env"]
    /\ lastAgent.proxy = "http://https-env"

\* one template per name of the response, in the order of the response
OnePerName ==
    [i \in 1..Len(ApiRemote) |-> [name |-> ApiRemote[i], path |-> ApiRemote[i]]]

\* C22: getTemplates() of the templates-API provider issues one request to
\* the listing endpoint on a cache miss and none on a cache hit, stores the
\* result under the one key 'gitignore' and under no other, and returns one
\* template per returned string, in the order of the response, with name
\* and path both equal to that string.
C22_ApiListing ==
    /\ [](\A c \in 1..MaxCalls :
             /\ api[c].state = "ok"
                   => (api[c].requests = 1 /\ api[c].value = OnePerName)
             /\ api[c].state = "hit"
                   => (api[c].requests = 0 /\ api[c].value = OnePerName))
    /\ [][\A c \in 1..MaxCalls :
             (api[c].state = "unused" /\ api'[c].state # "unused")
             => /\ api'[c].requests = (IF IsFresh(store[ApiCacheKey]) THEN 0 ELSE 1)
                /\ store' = store]_vars
    /\ [][\A c \in 1..MaxCalls :
             (api[c].state = "inflight" /\ api'[c].state = "ok")
             => store' = [store EXCEPT ![ApiCacheKey] =
                            [present |-> TRUE, value |-> OnePerName,
                             storedAt |-> now]]]_vars

\* a first call was answered, a second call was served from the cache, and
\* a third call, made after the entry had expired, was answered again
C22_Witness ==
    /\ MaxCalls >= 3
    /\ api[1].state = "ok" /\ api[2].state = "hit" /\ api[3].state = "ok"
    /\ api[3].entryAt = api[1].filledAt
    /\ Len(api[3].value) = 2

\* C24 as stated: rollback only deletes a file the operation itself
\* created: a destination file that existed before an Overwrite download
\* that fails, by a network error or a non-200 answer, still exists after
\* the failure.
C24_RollbackKeepsExisting ==
    (dl.kind = "download" /\ dl.type = "Overwrite" /\ dl.pre.exists
        /\ dl.pc = "failed")
    => file.exists

\* the download of the current command invocation has been called
Handed(c) == c.pc \in {"downloading", "done"} /\ c.type # ""

\* C25: the command never truncates an existing .gitignore without the
\* user's choice: the operation handed to download has type Overwrite only
\* if the file did not exist at the stat check or the user picked
\* 'Overwrite'; when the file exists and the user picks 'Append' the type is
\* Append and the previous content is kept; download is called at most
\* once per invocation.
C25_OverwriteOnlyByChoice ==
    /\ Handed(cmd) =>
          /\ dl.kind = "download" /\ dl.type = cmd.type
          /\ cmd.type = "Overwrite"
                => (cmd.existed = "no" \/ cmd.picked = "Overwrite")
          /\ (cmd.existed = "yes" /\ cmd.picked = "Append")
                => /\ cmd.type = "Append" /\ dl.flags = "a"
                   /\ file.exists /\ IsPrefix(dl.pre.content, file.content)
    /\ dlCount - cmd.dlAtStart <= 1
    /\ ~Handed(cmd) => dlCount = cmd.dlAtStart

\* the second invocation found the file the first one created, the user
\* picked 'Append', and the download succeeded
C25_Witness ==
    /\ cmd.runs = 2 /\ cmd.pc = "done" /\ cmd.success
    /\ cmd.existed = "yes" /\ cmd.picked = "Append"
    /\ dlCount = 2 /\ cmd.dlAtStart = 1
    /\ Len(file.content) > Len(dl.pre.content) + 1

\* the content of the destination before the call: X
Previous(d) == IF d.pre.exists THEN d.pre.content ELSE <<>>

\* C26: a successful Append download to a file with previous content X and
\* template body T leaves the file with X, one newline separator and T, in
\* that order: while the body is being written the file holds X, the
\* separator and the part of T written so far, so the one separator
\* precedes every byte of the template.
C26_AppendSeparatorOnce ==
    (dl.kind = "download" /\ dl.type = "Append") =>
       /\ dl.pc = "done" => file.content = Previous(dl) \o <<LF>> \o dl.body
       /\ dl.pc = "writing"
             => file.content \o dl.remaining = Previous(dl) \o <<LF>> \o dl.body

\* an Append download of the API provider to a file holding "A\n", with
\* the body "B\n", is done
C26_Witness ==
    /\ dl.kind = "download" /\ dl.type = "Append" /\ dl.provider = "Api"
    /\ dl.pc = "done" /\ dl.promise = "resolved"
    /\ dl.pre = [exists |-> TRUE, content |-> <<"A", LF>>]
    /\ dl.body = <<"B", LF>>
    /\ file.content = <<"A", LF, LF, "B", LF>>

\* a download in Append mode that has failed: by a non-200 answer, or by a
\* network error
FailedAppend(d) ==
    /\ d.kind = "download" /\ d.type = "Append" /\ d.pc = "failed"
    /\ (NonOkStatus(d) \/ d.netError)

\* C27 as stated: after an Append download that fails, by a non-200 answer
\* or a network error, the destination holds its previous content followed
\* by the one newline separator, and nothing else.
C27_FailedAppendLeavesSeparatorOnly ==
    FailedAppend(dl) => file.content = Previous(dl) \o <<LF>>

\* C27: a failed Append download is not rolled back: the destination exists
\* and holds its previous content, the one newline separator, and the part
\* of the body of a 200 response that was written before a network error;
\* after a non-200 answer or a network error before the response it holds
\* the previous content and the separator only.
C27_FailedAppendNotRolledBack ==
    FailedAppend(dl) =>
       /\ file.exists
       /\ dl.unlinks = 0
       /\ file.content \o dl.remaining = Previous(dl) \o <<LF>> \o dl.body
       /\ dl.status # 200 => file.content = Previous(dl) \o <<LF>>

\* an Append download to a file holding "A\n" has failed by a network
\* error before any response
C27_Witness ==
    /\ FailedAppend(dl) /\ dl.netError /\ dl.status = 0
    /\ dl.pre = [exists |-> TRUE, content |-> <<"A", LF>>]
    /\ file.content = <<"A", LF, LF>>

\* the position of effect e in the effects of call d, 0 if it is absent
Position(d, e) ==
    IF \E i \in 1..Len(d.effects) : d.effects[i] = e
    THEN CHOOSE i \in 1..Len(d.effects) : d.effects[i] = e
    ELSE 0

\* C28: in every download the filesystem side effect precedes the network
\* call: the destination is opened, and in Append mode the separator is
\* written, before the request is issued, so while the fetch is pending an
\* overwritten file is already empty and an appended file already ends
\* with the separator, and after a failed Overwrite download, whatever the
\* failure, the destination is absent or holds only bytes of the response.
C28_FileBeforeNetwork ==
    dl.kind = "download" =>
       /\ Position(dl, "createWriteStream") = 1
       /\ dl.requests > 0
             => /\ Position(dl, "request") > Position(dl, "createWriteStream")
                /\ dl.flags = "a" =>
                      /\ Position(dl, "write") > Position(dl, "createWriteStream")
                      /\ Position(dl, "request") > Position(dl, "write")
       /\ (dl.pc = "fetching" /\ dl.type = "Overwrite")
             => file = [exists |-> TRUE, content |-> <<>>]
       /\ (dl.pc = "fetching" /\ dl.type = "Append")
             => file = [exists |-> TRUE, content |-> Previous(dl) \o <<LF>>]
       /\ (dl.pc = "failed" /\ dl.type = "Overwrite")
             => \/ ~file.exists
                \/ file.content \o dl.remaining = dl.body

\* an Overwrite download to a file holding "A\n" was answered with 404:
\* the file is there, and empty
C28_Witness ==
    /\ dl.kind = "download" /\ dl.type = "Overwrite" /\ dl.pc = "failed"
    /\ dl.status = 404
    /\ dl.pre = [exists |-> TRUE, content |-> <<"A", LF>>]
    /\ file = [exists |-> TRUE, content |-> <<>>]

\* a listing request that has received its complete response or a
\* transport error
Completed(sub) == sub.state \in {"hit", "ok", "failed", "threw"}

\* C29: every getTemplates() call is settled, resolved or rejected, once
\* each of its listing requests has received its complete response or a
\* transport error, also when a 200 response carries a body that is not a
\* JSON array.
C29_SettlesOnceAnswered ==
    /\ \A c \in 1..MaxCalls :
          (Started(c) /\ \A p \in SubPaths : Completed(gt[c].sub[p]))
          => gt[c].state \in {"resolved", "rejected"}
    /\ \A c \in 1..MaxCalls :
          Completed(api[c]) => api[c].state \in {"hit", "ok", "failed"}

\* C30: rollback errors are never escalated: when an Overwrite download
\* fails with a network error and the deletion of the destination fails as
\* well, the download is rejected, once, with the message of the network
\* error, and the message of the deletion error is only logged.
C30_RollbackErrorOnlyLogged ==
    /\ []((dl.kind = "download" /\ dl.type = "Overwrite" /\ dl.netError
             /\ dl.unlinkError # "")
           => /\ dl.pc = "failed" /\ dl.promise = "rejected"
              /\ dl.value = [kind |-> "string", text |-> NetworkErrorMessage,
                             code |-> 0]
              /\ dl.logged = <<dl.unlinkError>>)
    /\ [][(dl.promise = "rejected" /\ dlCount' = dlCount)
            => (dl'.promise = "rejected" /\ dl'.value = dl.value)]_vars

\* an Overwrite download of the API provider has failed by a network error
\* while the body was written, and the unlink has failed: the file is
\* still there
C30_Witness ==
    /\ dl.kind = "download" /\ dl.type = "Overwrite" /\ dl.provider = "Api"
    /\ dl.netError /\ dl.unlinkError = UnlinkErrorMessage
    /\ dl.status = 200 /\ file.exists /\ file.content # <<>>
    /\ dl.promise = "rejected"

\* a file name without its last token
StripSuffix(name) == SubSeq(name, 1, Len(name) - 1)

\* C31: every kept entry of a listing maps to a template whose name is the
\* entry's file name with the trailing ".gitignore" stripped, and only
\* that one, also when ".gitignore" occurs earlier in the name, and whose
\* path is the entry's path relative to the repository root.
C31_TrailingSuffixStripped ==
    \A c \in 1..MaxCalls, p \in SubPaths :
        gt[c].sub[p].state = "ok" =>
           \A i \in 1..Len(gt[c].sub[p].value) :
              \E j \in Kept(p) :
                 /\ gt[c].sub[p].value[i].path = ItemPath(p, remote[p][j])
                 /\ gt[c].sub[p].value[i].name = StripSuffix(remote[p][j].name)

\* the listing requests for sub-path p that are in flight
InFlight(p) == {c \in 1..MaxCalls : gt[c].sub[p].state = "inflight"}

\* C32: the cache check and the cache fill of a listing are not one atomic
\* step: a getTemplates() call that starts while no listing is readable in
\* the cache issues its own request per sub-path, whether or not requests of
\* an earlier call are in flight, and every 200 response replaces the cache
\* entry of its key with its own list, so the entry finally holds the list
\* of the response that ended last; the same for the API provider.
C32_NoCoalescing ==
    /\ [][nCalls' = nCalls + 1 =>
            \A p \in SubPaths :
               gt'[nCalls'].sub[p].requests =
                  (IF IsFresh(store[CacheKey(p)]) THEN 0 ELSE 1)]_vars
    /\ [][\A c \in 1..MaxCalls, p \in SubPaths :
            (gt[c].sub[p].state = "inflight" /\ gt'[c].sub[p].state = "ok")
            => store'[CacheKey(p)] =
                  [present |-> TRUE, value |-> FilterMap(p, remote[p]),
                   storedAt |-> now]]_vars
    /\ [][\A c \in 1..MaxCalls :
            (api[c].state = "unused" /\ api'[c].state # "unused")
            => api'[c].requests = (IF IsFresh(store[ApiCacheKey]) THEN 0 ELSE 1)]_vars
    /\ [][\A c \in 1..MaxCalls :
            (api[c].state = "inflight" /\ api'[c].state = "ok")
            => store'[ApiCacheKey] =
                  [present |-> TRUE, value |-> api'[c].value, storedAt |-> now]]_vars
    /\ [](\A p \in SubPaths :
            (InFlight(p) = {} /\ \E c \in 1..MaxCalls : gt[c].sub[p].state = "ok")
            => \E c \in 1..MaxCalls :
                  /\ gt[c].sub[p].state = "ok"
                  /\ \A d \in 1..MaxCalls :
                        gt[d].sub[p].state = "ok"
                        => gt[d].sub[p].filledAt <= gt[c].sub[p].filledAt
                  /\ store[CacheKey(p)].storedAt = gt[c].sub[p].filledAt)

\* the second call started on a cold cache before any response of the
\* first one: four requests were issued, the root response of the second
\* call ended first, the one of the first call ended later with another
\* list, and the cache holds the list of the first call
C32_Witness ==
    /\ \A c \in 1..2, p \in SubPaths :
          gt[c].sub[p].requests = 1 /\ gt[c].sub[p].state = "ok"
    /\ gt[2].at < gt[2].sub[""].filledAt
    /\ gt[2].sub[""].filledAt < gt[1].sub[""].filledAt
    /\ gt[1].sub[""].value # gt[2].sub[""].value
    /\ store[CacheKey("")].value = gt[1].sub[""].value
    /\ store[CacheKey("")].storedAt = gt[1].sub[""].filledAt

\* of call c, the listing of sub-path p succeeded and the one of q failed
OneFailed(c, p, q) ==
    /\ p # q
    /\ gt[c].sub[p].state = "ok"
    /\ gt[c].sub[q].state = "failed"

\* C33: the two listing sub-calls of getTemplates() fill the cache
\* independently: a listing that succeeds is cached whatever becomes of the
\* other listing and of the call, so when one listing succeeded and the
\* other failed the call is rejected and the next call, started within the
\* expiration window of the cached listing, issues a request for the failed
\* sub-path only.
C33_PartialFill ==
    /\ [][\A c \in 1..MaxCalls, p \in SubPaths :
            (gt[c].sub[p].state = "inflight" /\ gt'[c].sub[p].state = "ok")
            => store'[CacheKey(p)] =
                  [present |-> TRUE, value |-> gt'[c].sub[p].value,
                   storedAt |-> now]]_vars
    /\ [](\A c \in 1..(MaxCalls - 1), p, q \in SubPaths :
            (/\ OneFailed(c, p, q) /\ Started(c + 1)
             /\ gt[c + 1].sub[p].entryAt = gt[c].sub[p].filledAt
             /\ gt[c + 1].at - gt[c].sub[p].filledAt < interval * TicksPerSecond)
            => /\ gt[c].state = "rejected"
               /\ gt[c + 1].sub[p].state = "hit"
               /\ gt[c + 1].sub[p].requests = 0
               /\ gt[c + 1].sub[p].value = gt[c].sub[p].value
               /\ gt[c + 1].sub[q].requests = 1)

\* the first call was rejected with its root listing answered and its
\* Global listing failed; the second call, five ticks later, took the root
\* listing from the cache, requested Global only, and resolved
C33_Witness ==
    /\ OneFailed(1, "", "Global") /\ gt[1].state = "rejected"
    /\ gt[2].state = "resolved"
    /\ gt[2].at = gt[1].sub[""].filledAt + ListingStep
    /\ gt[2].sub[""].state = "hit" /\ gt[2].sub[""].requests = 0
    /\ gt[2].sub["Global"].state = "ok" /\ gt[2].sub["Global"].requests = 1

====
